---- MODULE Spec2Model ----
(***************************************************************************)
(* Batch drivers for FSL FEAT:                                             *)
(*   P6/batchFEAT_main.py                  (preprocessing, regex rewrite)  *)
(*   P7/batchGLM2_onlypost.py              (GLM, str.format template)      *)
(*   P8/batchGLM1.py                       (GLM, str.format template)      *)
(*   P8/batchGLM2_onlypostcue_control.py   (GLM, str.format template)      *)
(*                                                                         *)
(* Text is a sequence of atoms.  An atom is a one-character string where   *)
(* the code slices the text (manifest lines, "run" + id) and a longer      *)
(* literal of the source where it never does ("_design.fsf").  A document  *)
(* is a sequence of lines, a line a sequence of atoms without its newline. *)
(***************************************************************************)
EXTENDS Integers, Sequences, FiniteSets, TLC

\* ---------------------------------------------------------------- bounds
MaxRuns == 2          \* manifest lines per batch
MaxCalls == 2         \* calls of session_GLM in one process
MaxBatches == 2       \* times batchFEAT_main.py is run on one directory
MaxRerunRuns == 1     \* manifest lines of a directory the script is rerun on

\* ------------------------------------------------------------ text helpers
Min(a, b) == IF a < b THEN a ELSE b
Max(a, b) == IF a > b THEN a ELSE b

\* inputFilename[0:2]
Prefix2(s) == SubSeq(s, 1, Min(2, Len(s)))

\* runDir[-2:]
Suffix2(s) == SubSeq(s, Max(1, Len(s) - 1), Len(s))

\* os.path.join(a, b): an absolute b discards a
path_join(a, b) ==
    IF b # <<>> /\ Head(b) = "/" THEN b
    ELSE IF a = <<>> \/ a[Len(a)] = "/" THEN a \o b
    ELSE a \o <<"/">> \o b

Digits == {"0", "1", "2", "3", "4", "5", "6", "7", "8", "9"}
DigitVal == [d \in Digits |-> CASE d = "0" -> 0 [] d = "1" -> 1 [] d = "2" -> 2
                                [] d = "3" -> 3 [] d = "4" -> 4 [] d = "5" -> 5
                                [] d = "6" -> 6 [] d = "7" -> 7 [] d = "8" -> 8
                                [] d = "9" -> 9]
DigitChr == <<"0", "1", "2", "3", "4", "5", "6", "7", "8", "9">>
Whitespace == {" ", "\n", "\t", "\r"}

RECURSIVE StripLeft(_)
StripLeft(s) ==
    IF s # <<>> /\ Head(s) \in Whitespace THEN StripLeft(Tail(s)) ELSE s

RECURSIVE StripRight(_)
StripRight(s) ==
    IF s # <<>> /\ s[Len(s)] \in Whitespace
    THEN StripRight(SubSeq(s, 1, Len(s) - 1)) ELSE s

Strip(s) == StripRight(StripLeft(s))

AllDigits(s) == s # <<>> /\ \A k \in 1..Len(s) : s[k] \in Digits

RECURSIVE DigitsVal(_)
DigitsVal(s) ==
    IF s = <<>> THEN 0
    ELSE 10 * DigitsVal(SubSeq(s, 1, Len(s) - 1)) + DigitVal[s[Len(s)]]

RECURSIVE NatStr(_)
NatStr(n) == IF n < 10 THEN <<DigitChr[n + 1]>>
             ELSE NatStr(n \div 10) \o <<DigitChr[(n % 10) + 1]>>

\* str(n) for an int
IntStr(n) == IF n < 0 THEN <<"-">> \o NatStr(0 - n) ELSE NatStr(n)

\* int(stdout): surrounding whitespace stripped, optional sign, decimal
\* digits; anything else raises ValueError.
ParseInt(s) ==
    LET t    == Strip(s)
        sgn  == t # <<>> /\ Head(t) \in {"+", "-"}
        body == IF sgn THEN Tail(t) ELSE t
    IN  IF AllDigits(body)
        THEN [ok |-> TRUE,
              val |-> IF sgn /\ Head(t) = "-" THEN 0 - DigitsVal(body)
                      ELSE DigitsVal(body)]
        ELSE [ok |-> FALSE, val |-> 0]

RECURSIVE Pow10(_)
Pow10(n) == IF n = 0 THEN 1 ELSE 10 * Pow10(n - 1)

DotPos(s) == IF \E k \in 1..Len(s) : s[k] = "."
             THEN CHOOSE k \in 1..Len(s) :
                     s[k] = "." /\ \A j \in 1..(k - 1) : s[j] # "."
             ELSE 0

\* float(stdout) for plain decimal text with at most six fractional digits
\* (the value is then exact at the precision "{:.6f}" prints): the result
\* is the value in millionths.  Anything else raises ValueError.
ParseFloat(s) ==
    LET t    == Strip(s)
        sgn  == t # <<>> /\ Head(t) \in {"+", "-"}
        body == IF sgn THEN Tail(t) ELSE t
        dot  == DotPos(body)
        ip   == IF dot = 0 THEN body ELSE SubSeq(body, 1, dot - 1)
        fp   == IF dot = 0 THEN <<>> ELSE SubSeq(body, dot + 1, Len(body))
        wf   == /\ ip \o fp # <<>>
                /\ \A k \in 1..Len(ip) : ip[k] \in Digits
                /\ \A k \in 1..Len(fp) : fp[k] \in Digits
                /\ Len(fp) <= 6
        mag  == DigitsVal(ip) * 1000000 + DigitsVal(fp) * Pow10(6 - Len(fp))
    IN  IF wf
        THEN [ok |-> TRUE,
              val |-> IF sgn /\ Head(t) = "-" THEN 0 - mag ELSE mag]
        ELSE [ok |-> FALSE, val |-> 0]

RECURSIVE ZeroPad(_, _)
ZeroPad(s, w) == IF Len(s) >= w THEN s ELSE ZeroPad(<<"0">> \o s, w)

\* the same with three decimals, "{:.3f}"
Format6f_short(micro) ==
    LET mag == IF micro < 0 THEN 0 - micro ELSE micro
    IN  (IF micro < 0 THEN <<"-">> ELSE <<>>)
        \o NatStr(mag \div 1000000) \o <<".">>
        \o ZeroPad(NatStr((mag % 1000000) \div 1000), 3)

\* "{:.6f}".format(x), x given in millionths
Format6f(micro) ==
    LET mag == IF micro < 0 THEN 0 - micro ELSE micro
    IN  (IF micro < 0 THEN <<"-">> ELSE <<>>)
        \o NatStr(mag \div 1000000) \o <<".">>
        \o ZeroPad(NatStr(mag % 1000000), 6)

\* ------------------------------------------------------------ run_command
\* run_command without the return code test
run_command_unchecked(returncode, stdout, capture_output) ==
    [raised     |-> FALSE,
     returncode |-> returncode,
     captured   |-> capture_output,
     stdout     |-> IF capture_output THEN stdout ELSE <<>>]

\* run_command testing "returncode > 0": death by signal goes unnoticed
run_command_positive(returncode, stdout, capture_output) ==
    [raised     |-> returncode > 0,
     returncode |-> returncode,
     captured   |-> capture_output,
     stdout     |-> IF capture_output THEN stdout ELSE <<>>]

\* subprocess.run followed by the return code test: a non-zero return code
\* raises RuntimeError whose message is the CompletedProcess (return code
\* and, when captured, stdout); zero returns the CompletedProcess.
run_command(returncode, stdout, capture_output) ==
    [raised     |-> returncode # 0,
     returncode |-> returncode,
     captured   |-> capture_output,
     stdout     |-> IF capture_output THEN stdout ELSE <<>>]

\* ------------------------------------------------- pattern rewriting (P6)
Quote == "\""

IndicesOf(line, atom) == {k \in 1..Len(line) : line[k] = atom}
SetMin(S) == CHOOSE x \in S : \A y \in S : x <= y
SetMax(S) == CHOOSE x \in S : \A y \in S : x >= y

\* a pattern that stops at the opening quote: the new value is put in front
\* of the old one, which stays
ReSubQuotedLine_insert(key, repl, line) ==
    LET ks == {k \in IndicesOf(line, key) :
                  \E q \in IndicesOf(line, Quote) : q > k}
    IN  IF ks = {} THEN line
        ELSE LET k == SetMin(ks)
             IN  SubSeq(line, 1, k) \o repl \o <<Quote>>
                 \o SubSeq(line, k + 1, Len(line))

\* re.sub(r'(<key> ").*"', r"\1" + repl + '"', line): the leftmost key that
\* has a quote after it matches, ".*" runs to the last quote of the line.
ReSubQuotedLine(key, repl, line) ==
    LET ks == {k \in IndicesOf(line, key) :
                  \E q \in IndicesOf(line, Quote) : q > k}
    IN  IF ks = {} THEN line
        ELSE LET k == SetMin(ks)
                 q == SetMax(IndicesOf(line, Quote))
             IN  SubSeq(line, 1, k) \o repl \o <<Quote>>
                 \o SubSeq(line, q + 1, Len(line))

\* the replacement written without the group reference: the key is lost
ReSubToEolLine_nogroup(key, repl, line) ==
    LET ks == IndicesOf(line, key)
    IN  IF ks = {} THEN line
        ELSE SubSeq(line, 1, SetMin(ks) - 1) \o repl

\* re.sub(r"(<key> ).*", r"\g<1>" + repl, line): ".*" runs to the line end.
ReSubToEolLine(key, repl, line) ==
    LET ks == IndicesOf(line, key)
    IN  IF ks = {} THEN line
        ELSE SubSeq(line, 1, SetMin(ks)) \o repl

\* "." does not match a newline, so re.sub rewrites line by line.
ReSubQuoted(key, repl, doc) ==
    [n \in 1..Len(doc) |-> ReSubQuotedLine(key, repl, doc[n])]

\* an upsert: a key no line has is added as a new line
ReSubToEol_append(key, repl, doc) ==
    IF \E n \in 1..Len(doc) : IndicesOf(doc[n], key) # {}
    THEN [n \in 1..Len(doc) |-> ReSubToEolLine(key, repl, doc[n])]
    ELSE Append(doc, <<key>> \o repl)

ReSubToEol(key, repl, doc) ==
    [n \in 1..Len(doc) |-> ReSubToEolLine(key, repl, doc[n])]

KeyHighres   == "set highres_files(1) \""
KeyFeatFiles == "set feat_files(1) \""
KeyOutputdir == "set fmri(outputdir) \""
KeyStFile    == "set fmri(st_file) \""
KeyNpts      == "set fmri(npts) "
KeyTr        == "set fmri(tr) "

\* ------------------------------------------- named placeholders (P7, P8)
\* str.format over one line: "{{" and "}}" are escapes, "{" name "}" is a
\* replacement field looked up in params (KeyError when absent), any other
\* brace is a ValueError.  Fields are processed left to right.
RECURSIVE FormatLine(_, _)
FormatLine(line, params) ==
    IF line = <<>> THEN [err |-> "none", out |-> <<>>]
    ELSE LET h == Head(line)
         IN  IF h = "{"
             THEN IF Len(line) >= 3 /\ line[3] = "}"
                  THEN IF line[2] \in DOMAIN params
                       THEN LET r == FormatLine(SubSeq(line, 4, Len(line)), params)
                            IN  [err |-> r.err, out |-> params[line[2]] \o r.out]
                       ELSE [err |-> "KeyError", out |-> <<>>]
                  ELSE [err |-> "ValueError", out |-> <<>>]
             ELSE IF h = "}" THEN [err |-> "ValueError", out |-> <<>>]
             ELSE LET r == FormatLine(Tail(line), params)
                      a == IF h = "{{" THEN "{" ELSE IF h = "}}" THEN "}" ELSE h
                  IN  [err |-> r.err, out |-> <<a>> \o r.out]

RECURSIVE FormatDoc(_, _)
FormatDoc(doc, params) ==
    IF doc = <<>> THEN [err |-> "none", out |-> <<>>]
    ELSE LET l == FormatLine(Head(doc), params)
         IN  IF l.err # "none" THEN [err |-> l.err, out |-> <<>>]
             ELSE LET r == FormatDoc(Tail(doc), params)
                  IN  [err |-> r.err,
                       out |-> IF r.err = "none" THEN <<l.out>> \o r.out
                               ELSE <<>>]

\* the replacement field names of a document
FieldNames(doc) ==
    UNION { {doc[n][k + 1] : k \in {j \in 1..Len(doc[n]) :
                                        /\ j + 2 <= Len(doc[n])
                                        /\ doc[n][j] = "{"
                                        /\ doc[n][j + 2] = "}"}} :
            n \in 1..Len(doc) }

\* a fill that puts nothing where the key is missing, as
\* template.format_map(defaultdict(str, params)) would
fill_in_template_lenient(template, params) ==
    FormatDoc(template,
        [k \in DOMAIN params \cup FieldNames(template) |->
            IF k \in DOMAIN params THEN params[k] ELSE <<>>])

\* template.format(**params)
fill_in_template(template, params) == FormatDoc(template, params)

\* ------------------------------------------------------- driver constants
FEAT == "batchFEAT_main"
GLM2 == "batchGLM2_onlypost"
GLM1 == "batchGLM1"
GLM2C == "batchGLM2_onlypostcue_control"
GLMDrivers == {GLM2, GLM1, GLM2C}
Drivers == {FEAT} \cup GLMDrivers

\* params[...] = os.path.join(workingDir, EVPrefix + ...): key |-> file
EVFiles_GLM2_onlypost ==
    [ missing05Path |-> "missing05_onlypost.txt",
      missing06Path |-> "missing06_onlypost.txt",
      missing07Path |-> "missing07_onlypost.txt",
      missing08Path |-> "missing08_onlypost.txt",
      missing09Path |-> "missing09_onlypost.txt",
      missing15Path |-> "missing15_onlypost.txt",
      missing16Path |-> "missing16_onlypost.txt",
      missing17Path |-> "missing17_onlypost.txt",
      missing18Path |-> "missing18_onlypost.txt",
      missing19Path |-> "missing19_onlypost.txt",
      missing25Path |-> "missing25_onlypost.txt",
      missing26Path |-> "missing26_onlypost.txt",
      missing27Path |-> "missing27_onlypost.txt",
      missing28Path |-> "missing28_onlypost.txt",
      missing29Path |-> "missing29_onlypost.txt",
      missing35Path |-> "missing35_onlypost.txt",
      missing36Path |-> "missing36_onlypost.txt",
      missing37Path |-> "missing37_onlypost.txt",
      missing38Path |-> "missing38_onlypost.txt",
      missing39Path |-> "missing39_onlypost.txt",
      missing45Path |-> "missing45_onlypost.txt",
      missing46Path |-> "missing46_onlypost.txt",
      missing47Path |-> "missing47_onlypost.txt",
      missing48Path |-> "missing48_onlypost.txt",
      missing49Path |-> "missing49_onlypost.txt",
      testarraypostcuePath |-> "testarraypostcue.txt",
      testarrayretrocuePath |-> "testarrayretrocue.txt",
      memoryarrayretrocuePath |-> "memoryarrayretrocue.txt" ]
EVFiles_GLM1 ==
    [ image0WMplusPath |-> "image0_WMplus.txt",
      image0WMminusPath |-> "image0_WMminus.txt",
      image1WMplusPath |-> "image1_WMplus.txt",
      image1WMminusPath |-> "image1_WMminus.txt",
      image2WMplusPath |-> "image2_WMplus.txt",
      image2WMminusPath |-> "image2_WMminus.txt",
      image3WMplusPath |-> "image3_WMplus.txt",
      image3WMminusPath |-> "image3_WMminus.txt",
      image4WMplusPath |-> "image4_WMplus.txt",
      image4WMminusPath |-> "image4_WMminus.txt",
      image5WMplusPath |-> "image5_WMplus.txt",
      image5WMminusPath |-> "image5_WMminus.txt",
      image6WMplusPath |-> "image6_WMplus.txt",
      image6WMminusPath |-> "image6_WMminus.txt",
      image7WMplusPath |-> "image7_WMplus.txt",
      image7WMminusPath |-> "image7_WMminus.txt",
      image8WMplusPath |-> "image8_WMplus.txt",
      image8WMminusPath |-> "image8_WMminus.txt",
      image9WMplusPath |-> "image9_WMplus.txt",
      image9WMminusPath |-> "image9_WMminus.txt",
      norespPath |-> "noresponses.txt",
      testarraypostcuePath |-> "testarraypostcue.txt",
      testarrayretrocuePath |-> "testarrayretrocue.txt",
      memoryarrayretrocuePath |-> "memoryarrayretrocue.txt" ]
EVFiles_GLM2_control ==
    [ missing05CorrPath |-> "missing05_onlypostcorr.txt",
      missing06CorrPath |-> "missing06_onlypostcorr.txt",
      missing07CorrPath |-> "missing07_onlypostcorr.txt",
      missing08CorrPath |-> "missing08_onlypostcorr.txt",
      missing09CorrPath |-> "missing09_onlypostcorr.txt",
      missing15CorrPath |-> "missing15_onlypostcorr.txt",
      missing16CorrPath |-> "missing16_onlypostcorr.txt",
      missing17CorrPath |-> "missing17_onlypostcorr.txt",
      missing18CorrPath |-> "missing18_onlypostcorr.txt",
      missing19CorrPath |-> "missing19_onlypostcorr.txt",
      missing25CorrPath |-> "missing25_onlypostcorr.txt",
      missing26CorrPath |-> "missing26_onlypostcorr.txt",
      missing27CorrPath |-> "missing27_onlypostcorr.txt",
      missing28CorrPath |-> "missing28_onlypostcorr.txt",
      missing29CorrPath |-> "missing29_onlypostcorr.txt",
      missing35CorrPath |-> "missing35_onlypostcorr.txt",
      missing36CorrPath |-> "missing36_onlypostcorr.txt",
      missing37CorrPath |-> "missing37_onlypostcorr.txt",
      missing38CorrPath |-> "missing38_onlypostcorr.txt",
      missing39CorrPath |-> "missing39_onlypostcorr.txt",
      missing45CorrPath |-> "missing45_onlypostcorr.txt",
      missing46CorrPath |-> "missing46_onlypostcorr.txt",
      missing47CorrPath |-> "missing47_onlypostcorr.txt",
      missing48CorrPath |-> "missing48_onlypostcorr.txt",
      missing49CorrPath |-> "missing49_onlypostcorr.txt",
      testarraypostcuePath |-> "testarraypostcue.txt",
      testarrayretrocuePath |-> "testarrayretrocue.txt",
      memoryarrayretrocuePath |-> "memoryarrayretrocue.txt",
      missing05IncorrPath |-> "missing05_onlypostincorr.txt",
      missing06IncorrPath |-> "missing06_onlypostincorr.txt",
      missing07IncorrPath |-> "missing07_onlypostincorr.txt",
      missing08IncorrPath |-> "missing08_onlypostincorr.txt",
      missing09IncorrPath |-> "missing09_onlypostincorr.txt",
      missing15IncorrPath |-> "missing15_onlypostincorr.txt",
      missing16IncorrPath |-> "missing16_onlypostincorr.txt",
      missing17IncorrPath |-> "missing17_onlypostincorr.txt",
      missing18IncorrPath |-> "missing18_onlypostincorr.txt",
      missing19IncorrPath |-> "missing19_onlypostincorr.txt",
      missing25IncorrPath |-> "missing25_onlypostincorr.txt",
      missing26IncorrPath |-> "missing26_onlypostincorr.txt",
      missing27IncorrPath |-> "missing27_onlypostincorr.txt",
      missing28IncorrPath |-> "missing28_onlypostincorr.txt",
      missing29IncorrPath |-> "missing29_onlypostincorr.txt",
      missing35IncorrPath |-> "missing35_onlypostincorr.txt",
      missing36IncorrPath |-> "missing36_onlypostincorr.txt",
      missing37IncorrPath |-> "missing37_onlypostincorr.txt",
      missing38IncorrPath |-> "missing38_onlypostincorr.txt",
      missing39IncorrPath |-> "missing39_onlypostincorr.txt",
      missing45IncorrPath |-> "missing45_onlypostincorr.txt",
      missing46IncorrPath |-> "missing46_onlypostincorr.txt",
      missing47IncorrPath |-> "missing47_onlypostincorr.txt",
      missing48IncorrPath |-> "missing48_onlypostincorr.txt",
      missing49IncorrPath |-> "missing49_onlypostincorr.txt" ]

EVFiles(d) == CASE d = GLM2  -> EVFiles_GLM2_onlypost
                [] d = GLM1  -> EVFiles_GLM1
                [] d = GLM2C -> EVFiles_GLM2_control

\* EVPrefix = "EVfiles/GLM?_run" + curRun + "_"
EVPrefix(d, curRun) ==
    <<IF d = GLM1 THEN "EVfiles/GLM1_run" ELSE "EVfiles/GLM2_run">>
    \o curRun \o <<"_">>

TemplateName(d) == CASE d = FEAT  -> "design_template_main.fsf"
                     [] d = GLM2  -> "GLM2_template_onlypost.fsf"
                     [] d = GLM1  -> "GLM1_template.fsf"
                     [] d = GLM2C -> "GLM2_template_onlypostcue_control.fsf"

ConfigSuffix(d) == CASE d = FEAT  -> "_design.fsf"
                     [] d = GLM2  -> "_GLM2onlypost.fsf"
                     [] d = GLM1  -> "_GLM1.fsf"
                     [] d = GLM2C -> "_GLM2onlypost_control.fsf"

\* ------------------------------------------------------------------ paths
\* os.getcwd() in P6, os.path.abspath(args.workingDir) in P7/P8
workingDir == <<"/", "w">>
\* another directory the GLM command line may be started from
otherDir == <<"/", "h">>
\* os.path.abspath(PD_dir), PD_dir read from directories.ini
structuarlDir == <<"/", "pd">>
STRUCTURALFILENAME == "final_structural"

template(d) == path_join(workingDir, <<TemplateName(d)>>)
toProcess == path_join(workingDir, <<"to_process_main.txt">>)

\* cur_nifii = inputFilename[0:2]
cur_nifii(inputFilename) == Prefix2(inputFilename)

\* os.path.join(workingDir, "run" + cur_nifii)
RunDirOfLine(inputFilename) ==
    path_join(workingDir, <<"r", "u", "n">> \o cur_nifii(inputFilename))

\* curRun = runDir[-2:]
curRunOf(runDir) == Suffix2(runDir)

\* a config path that leaves out the run: one file for the whole batch
ConfigPathName_shared(d, dir, id) ==
    path_join(workingDir, <<"block">> \o <<ConfigSuffix(d)>>)

\* block_design_path / blockGLMPath
ConfigPathName(d, dir, id) ==
    path_join(dir, <<"block">> \o id \o <<ConfigSuffix(d)>>)

\* input_file_root = os.path.join(workingDir, cur_nifii)
input_file_root(id) == path_join(workingDir, id)

\* params["input_feat_file"]
InputFeatFile(runDir, curRun) ==
    path_join(path_join(runDir, curRun \o <<"-preprocess.feat">>),
              <<"denoised_data.nii.gz">>)

\* the params dict of one run, every value as str.format inserts it
Params(d, runDir, curRun, numVolumes) ==
    LET ev == EVFiles(d)
    IN  [k \in {"input_feat_file", "numVolumes"} \cup DOMAIN ev |->
            IF k = "input_feat_file" THEN InputFeatFile(runDir, curRun)
            ELSE IF k = "numVolumes" THEN IntStr(numVolumes)
            ELSE path_join(workingDir, EVPrefix(d, curRun) \o <<ev[k]>>)]

\* ----------------------------------------------------------------- inputs
\* manifest lines as file iteration yields them (newline kept)
Line05    == <<"0", "5", "_run.nii", "\n">>
Line12    == <<"1", "2", "_run.nii", "\n">>
LineBlank == <<"\n">>
LineShort == <<"7", "\n">>
LineNoEol == <<"0", "9", "_run.nii">>
ManifestLines == {Line05, Line12, LineBlank, LineShort, LineNoEol}

\* the line starts with a two-digit run ID
HasId(line) == Len(line) >= 2 /\ line[1] \in Digits /\ line[2] \in Digits

\* only the last line of a file can lack its newline
Manifests ==
    {m \in UNION {[1..n -> ManifestLines] : n \in 0..MaxRuns} :
        \A k \in 1..Len(m) : m[k] = LineNoEol => k = Len(m)}

FeatTemplateFull ==
    << <<KeyHighres, "struct_old", Quote>>,
       <<KeyFeatFiles, "in_old", Quote>>,
       <<KeyOutputdir, "out_old", Quote>>,
       <<KeyStFile, "st_old", Quote>>,
       <<KeyNpts, "0">>,
       <<KeyTr, "3.000000">>,
       <<"set fmri(smooth) ", "5">> >>

\* a template without the npts and tr lines
FeatTemplatePartial ==
    << <<KeyHighres, "struct_old", Quote>>,
       <<KeyFeatFiles, "in_old", Quote>>,
       <<"set fmri(smooth) ", "5">> >>

GlmTemplateCommon ==
    << <<KeyFeatFiles, "{", "input_feat_file", "}", Quote>>,
       <<KeyNpts, "{", "numVolumes", "}">>,
       <<KeyTr, "2.000000">>,
       <<"set fmri(custom1) \"", "{", "testarraypostcuePath", "}", Quote>> >>

\* names a key only batchGLM2_onlypost supplies
GlmTemplateOnlypost ==
    << <<KeyNpts, "{", "numVolumes", "}">>,
       <<KeyTr, "2.000000">>,
       <<"set fmri(custom1) \"", "{", "missing05Path", "}", Quote>> >>

\* names TR_duration, which no GLM driver supplies
GlmTemplateTr ==
    << <<KeyNpts, "{", "numVolumes", "}">>,
       <<KeyTr, "{", "TR_duration", "}">> >>

Templates(d) == IF d = FEAT THEN {FeatTemplateFull, FeatTemplatePartial}
                ELSE {GlmTemplateCommon, GlmTemplateOnlypost, GlmTemplateTr}

\* what the helper programs and feat can do: exit status and stdout
Statuses == {0, 1, -9}
NumVolumeOutputs == { <<"1", "2", "0", "\n">>, <<" ", "9", "5">>,
                      <<"a", "b", "c", "\n">> }
TRDurationOutputs == { <<"2", ".", "0", "0", "0", "0", "0", "0", "\n">>,
                       <<"1", ".", "5", "\n">>, <<>> }
Outcomes(outputs) ==
    {[status |-> 0, out |-> o] : o \in outputs}
    \cup {[status |-> s, out |-> <<>>] : s \in Statuses \ {0}}

\* ------------------------------------------------------------ file system
\* open(path, "a+") and a read from the start: an absent file is created
OpenRead_create(fs, path) ==
    IF path \in DOMAIN fs THEN [ok |-> TRUE, content |-> fs[path]]
    ELSE [ok |-> TRUE, content |-> <<>>]

\* open(path, "r"): FileNotFoundError when the file is absent
OpenRead(fs, path) ==
    IF path \in DOMAIN fs THEN [ok |-> TRUE, content |-> fs[path]]
    ELSE [ok |-> FALSE, content |-> <<>>]

\* open(path, "w") without the write: the file is left empty
WriteFile_truncate(fs, path, content) ==
    [p \in DOMAIN fs \cup {path} |-> IF p = path THEN <<>> ELSE fs[p]]

\* with open(path, "w") as file: file.write(content)
WriteFile(fs, path, content) ==
    [p \in DOMAIN fs \cup {path} |-> IF p = path THEN content ELSE fs[p]]

\* shutil.copy(src, dst)
CopyFile(fs, src, dst) ==
    [p \in DOMAIN fs \cup {dst} |-> IF p = dst THEN fs[src] ELSE fs[p]]

\* ------------------------------------------------------------------ state
VARIABLES
    driver,          \* which of the four scripts runs
    files,           \* path -> content: manifest, template, config files
    dirs,            \* existing directories
    cwd,             \* the process's current working directory
    cwd0,            \* cwd when the batch started
    curDir,          \* curDir = os.getcwd() saved before os.chdir(runDir)
    pc,              \* position in the script
    err,             \* the exception that ended the batch
    inputs,          \* P6: the lines of the open manifest
    inputFolders,    \* P7/P8: run directories built by session_GLM_CLI
    i,               \* position of the current run in the manifest (1..)
    tmpl,            \* P7/P8: GLM?Template read at the start of the batch
    block_design,    \* P6: the document being rewritten
    input_feat_file, \* P7/P8: params["input_feat_file"]
    num_volume,      \* num_volume / params["numVolumes"]
    fileHandlers,    \* P7/P8: log file handlers on the module logger
    trace,           \* what the batch has done, in order
    printed,         \* what each helper printed, per run
    featOutputs,     \* results left by feat runs that exited 0
    snap,            \* config and feat results as each run completed
    template0,       \* the template file as it was before the first batch
    batch,           \* P6: how many times the script has been started
    calls,           \* P7/P8: calls of session_GLM in this process
    emitted,         \* P7/P8: records the logger emitted in this batch
    appended         \* P7/P8: lines this batch appended to the log file

ctl   == <<pc, err, i>>
env   == <<driver, cwd0, template0, batch>>
logst == <<calls, emitted, appended>>
mem   == <<inputs, inputFolders, tmpl, block_design, input_feat_file,
           num_volume, curDir, fileHandlers>>
ghost == <<trace, printed, featOutputs, snap>>
vars  == <<driver, files, dirs, cwd, cwd0, curDir, pc, err, inputs,
           inputFolders, i, tmpl, block_design, input_feat_file, num_volume,
           fileHandlers, trace, printed, featOutputs, snap, template0,
           batch, calls, emitted, appended>>

NoErr == [kind |-> "none", returncode |-> 0]

IsGLM == driver \in GLMDrivers

NRuns == IF driver = FEAT THEN Len(inputs) ELSE Len(inputFolders)

\* run directory and identifier of the run at position k
RunDirAt(k) == IF driver = FEAT THEN RunDirOfLine(inputs[k])
               ELSE inputFolders[k]
RunIdAt(k) == IF driver = FEAT THEN cur_nifii(inputs[k])
              ELSE curRunOf(inputFolders[k])
ConfigPathAt(k) == ConfigPathName(driver, RunDirAt(k), RunIdAt(k))

\* a file system call or the start of a command
Event(kind, run, path, at) ==
    [kind |-> kind, run |-> run, path |-> path, cwd |-> at, status |-> 0]

\* subprocess.run has returned: the command has exited with this status
ExitEvent(cmd, run, at, status) ==
    [kind |-> "exit", run |-> run, path |-> <<cmd>>, cwd |-> at,
     status |-> status]

Init ==
    /\ driver \in Drivers
    /\ \E hasManifest \in BOOLEAN, hasTemplate \in BOOLEAN,
          m \in Manifests, t \in Templates(driver) :
          \* an absent file has no content to vary
          /\ hasManifest = FALSE => m = <<>>
          /\ hasTemplate = FALSE => t = CHOOSE x \in Templates(driver) : TRUE
          /\ files = [p \in (IF hasManifest THEN {toProcess} ELSE {})
                            \cup (IF hasTemplate THEN {template(driver)} ELSE {})
                        |-> IF p = toProcess THEN m ELSE t]
          /\ template0 = IF hasTemplate THEN t ELSE <<>>
          \* P6 creates its run directories; the GLM drivers expect the
          \* ones preprocessing left for the run IDs, which are there or not
          /\ \E runDirsExist \in BOOLEAN :
                dirs = {workingDir, otherDir}
                       \cup (IF driver # FEAT /\ runDirsExist
                             THEN {RunDirOfLine(m[k]) :
                                      k \in {n \in 1..Len(m) : HasId(m[n])}}
                             ELSE {})
    \* P6 takes workingDir from os.getcwd(); --workingDir may name another
    /\ cwd0 \in (IF driver = FEAT THEN {workingDir} ELSE {workingDir, otherDir})
    /\ cwd = cwd0
    /\ curDir = <<>>
    /\ pc = "start"
    /\ err = NoErr
    /\ inputs = <<>>
    /\ inputFolders = <<>>
    /\ i = 0
    /\ tmpl = <<>>
    /\ block_design = <<>>
    /\ input_feat_file = <<>>
    /\ num_volume = 0
    /\ fileHandlers = 0
    /\ trace = <<>>
    /\ printed = <<>>
    /\ featOutputs = {}
    /\ snap = <<>>
    /\ batch = 1
    /\ calls = 0
    /\ emitted = 0
    /\ appended = 0

\* a handler added only when the logger has none
AddHandler_once(n) == IF n = 0 THEN 1 ELSE n

\* logger.addHandler(get_FileHandler(...)): one more handler on the logger
AddHandler(n) == n + 1

\* n records emitted while the logger holds h file handlers, each opened
\* on the log file in append mode at level DEBUG: every handler appends
\* every record
Log(n, h) ==
    /\ emitted' = emitted + n
    /\ appended' = appended + n * h

\* an uncaught exception ends the batch where it is raised
Raise(kind, returncode) ==
    /\ pc' = "error"
    /\ err' = [kind |-> kind, returncode |-> returncode]

\* --------------------------------------------------------------- P6 start
\* batchFEAT_main.py 30-50: set highres_files(1) in the template on disk.
\* directories.ini is taken to be present and to define PD_dir.
RewriteTemplate ==
    /\ driver = FEAT /\ pc = "start"
    /\ LET r == OpenRead(files, template(FEAT))
       IN  IF ~r.ok
           THEN /\ Raise("FileNotFoundError", 0)
                /\ UNCHANGED <<files, i>>
           ELSE /\ files' = WriteFile(files, template(FEAT),
                      ReSubQuoted(KeyHighres,
                          path_join(structuarlDir, <<STRUCTURALFILENAME>>),
                          r.content))
                /\ pc' = "open"
                /\ UNCHANGED <<err, i>>
    /\ UNCHANGED <<env, mem, ghost, logst, dirs, cwd>>

\* batchFEAT_main.py 52: open(toProcess, "r")
OpenManifest ==
    /\ driver = FEAT /\ pc = "open"
    /\ LET r == OpenRead(files, toProcess)
       IN  IF ~r.ok
           THEN /\ Raise("FileNotFoundError", 0)
                /\ UNCHANGED inputs
           ELSE /\ inputs' = r.content
                /\ pc' = "loop"
                /\ UNCHANGED err
    /\ UNCHANGED <<env, ghost, logst, files, dirs, cwd, i, inputFolders,
                   tmpl, block_design, input_feat_file, num_volume, curDir,
                   fileHandlers>>

\* --------------------------------------------------------- P7/P8 start
\* session_GLM_CLI: read the manifest into inputFolders
session_GLM_CLI ==
    /\ IsGLM /\ pc = "start"
    /\ LET r == OpenRead(files, toProcess)
       IN  IF ~r.ok
           THEN /\ Raise("FileNotFoundError", 0)
                /\ UNCHANGED inputFolders
           ELSE /\ inputFolders' =
                      [k \in 1..Len(r.content) |-> RunDirOfLine(r.content[k])]
                /\ pc' = "session"
                /\ UNCHANGED err
    /\ UNCHANGED <<env, ghost, logst, files, dirs, cwd, i, inputs, tmpl,
                   block_design, input_feat_file, num_volume, curDir,
                   fileHandlers>>

\* session_GLM 98-101: add the log file handler, read the template
SessionBegin ==
    /\ IsGLM /\ pc = "session"
    /\ calls' = calls + 1
    /\ fileHandlers' = AddHandler(fileHandlers)
    /\ LET r == OpenRead(files, template(driver))
       IN  IF ~r.ok
           THEN /\ Raise("FileNotFoundError", 0)
                /\ Log(0, AddHandler(fileHandlers))
                /\ UNCHANGED tmpl
           ELSE /\ tmpl' = r.content
                /\ pc' = "loop"
                \* logger.debug("Read GLM2Template ...")
                /\ Log(1, AddHandler(fileHandlers))
                /\ UNCHANGED err
    /\ UNCHANGED <<env, ghost, files, dirs, cwd, i, inputs, inputFolders,
                   block_design, input_feat_file, num_volume, curDir>>

\* ------------------------------------------------------------ per run, P6
\* 53-85: run directory, copy of the template, the three path rewrites,
\* then getNumVolume.sh is started
BeginRunFEAT ==
    /\ driver = FEAT /\ pc = "loop" /\ i < Len(inputs)
    /\ LET n     == i + 1
           id    == cur_nifii(inputs[n])
           bdir  == path_join(workingDir, <<"r", "u", "n">> \o id)
           bpath == ConfigPathName(FEAT, bdir, id)
           root  == input_file_root(id)
       IN  \E fs \in {CopyFile(files, template(FEAT), bpath)} :
           \E d1 \in {ReSubQuoted(KeyFeatFiles, root, fs[bpath])} :
           \E d2 \in {ReSubQuoted(KeyOutputdir,
                        path_join(bdir, id \o <<"-preprocess.feat">>), d1)} :
           \E d3 \in {ReSubQuoted(KeyStFile,
                        path_join(bdir, <<"slicetimes.txt">>), d2)} :
           /\ i' = n
           /\ dirs' = dirs \cup {bdir}
           /\ files' = fs
           /\ block_design' = d3
           /\ trace' = trace \o
                 << Event("makedirs", n, bdir, cwd),
                    Event("copy", n, bpath, cwd),
                    Event("read", n, bpath, cwd),
                    Event("getNumVolume", n, root \o <<".nii.gz">>, cwd) >>
    /\ pc' = "numvol_wait"
    /\ UNCHANGED <<env, logst, err, cwd, inputs, inputFolders, tmpl,
                   input_feat_file, num_volume, curDir, fileHandlers,
                   printed, featOutputs, snap>>

\* 83-92: getNumVolume.sh has exited; npts is rewritten and
\* getTRDuration.sh is started
ExitNumVolumeFEAT ==
    /\ driver = FEAT /\ pc = "numvol_wait"
    /\ \E o \in Outcomes(NumVolumeOutputs) :
          LET cresult == run_command(o.status, o.out, TRUE)
              p       == ParseInt(cresult.stdout)
              ex(x)   == ExitEvent("getNumVolume", i, cwd, x.status)
          IN  IF cresult.raised
              THEN /\ Raise("RuntimeError", cresult.returncode)
                   /\ trace' = Append(trace, ex(o))
                   /\ UNCHANGED <<num_volume, block_design, printed>>
              ELSE /\ printed' = Append(printed,
                          [run |-> i, cmd |-> "getNumVolume", out |-> o.out])
                   /\ IF ~p.ok
                      THEN /\ Raise("ValueError", 0)
                           /\ trace' = Append(trace, ex(o))
                           /\ UNCHANGED <<num_volume, block_design>>
                      ELSE /\ num_volume' = p.val
                           /\ block_design' =
                                 ReSubToEol(KeyNpts, IntStr(p.val), block_design)
                           /\ trace' = trace \o
                                 << ex(o),
                                    Event("getTRDuration", i,
                                          input_file_root(RunIdAt(i)) \o <<".nii.gz">>,
                                          cwd) >>
                           /\ pc' = "tr_wait"
                           /\ UNCHANGED err
    /\ UNCHANGED <<env, logst, files, dirs, cwd, i, inputs, inputFolders,
                   tmpl, input_feat_file, curDir, fileHandlers, featOutputs,
                   snap>>

\* 91-108: getTRDuration.sh has exited; tr is rewritten, the document is
\* written to block_design_path and makeSlicetimings.sh is started
ExitTRDuration ==
    /\ driver = FEAT /\ pc = "tr_wait"
    /\ \E o \in Outcomes(TRDurationOutputs) :
          LET cresult == run_command(o.status, o.out, TRUE)
              p       == ParseFloat(cresult.stdout)
              doc     == ReSubToEol(KeyTr, Format6f(p.val), block_design)
              ex(x)   == ExitEvent("getTRDuration", i, cwd, x.status)
          IN  IF cresult.raised
              THEN /\ Raise("RuntimeError", cresult.returncode)
                   /\ trace' = Append(trace, ex(o))
                   /\ UNCHANGED <<files, block_design, printed>>
              ELSE /\ printed' = Append(printed,
                          [run |-> i, cmd |-> "getTRDuration", out |-> o.out])
                   /\ IF ~p.ok
                      THEN /\ Raise("ValueError", 0)
                           /\ trace' = Append(trace, ex(o))
                           /\ UNCHANGED <<files, block_design>>
                      ELSE /\ block_design' = doc
                           /\ files' = WriteFile(files, ConfigPathAt(i), doc)
                           /\ trace' = trace \o
                                 << ex(o),
                                    Event("write_config", i, ConfigPathAt(i), cwd),
                                    Event("makeSlicetimings", i,
                                          path_join(RunDirAt(i), <<"slicetimes.txt">>),
                                          cwd) >>
                           /\ pc' = "st_wait"
                           /\ UNCHANGED err
    /\ UNCHANGED <<env, logst, dirs, cwd, i, inputs, inputFolders, tmpl,
                   input_feat_file, num_volume, curDir, fileHandlers,
                   featOutputs, snap>>

\* 108-113: makeSlicetimings.sh has exited; chdir into the run directory
\* and start feat
ExitSlicetimings ==
    /\ driver = FEAT /\ pc = "st_wait"
    /\ \E s \in Statuses :
          LET results == run_command(s, <<>>, FALSE)
              ex      == ExitEvent("makeSlicetimings", i, cwd, s)
          IN  IF results.raised
              THEN /\ Raise("RuntimeError", results.returncode)
                   /\ trace' = Append(trace, ex)
                   /\ UNCHANGED cwd
              ELSE /\ cwd' = RunDirAt(i)
                   /\ trace' = trace \o
                         << ex, Event("feat", i, ConfigPathAt(i), RunDirAt(i)) >>
                   /\ pc' = "feat_wait"
                   /\ UNCHANGED err
    /\ UNCHANGED <<env, mem, logst, files, dirs, i, printed, featOutputs,
                   snap>>

\* the next run begun without waiting for feat to exit, as with
\* subprocess.Popen in place of subprocess.run
BeginRunGLM_nowait ==
    /\ IsGLM /\ pc \in {"loop", "feat_wait"} /\ i < Len(inputFolders)
    /\ LET n      == i + 1
           runDir == inputFolders[n]
           curRun == curRunOf(runDir)
       IN  /\ i' = n
           /\ input_feat_file' = InputFeatFile(runDir, curRun)
           /\ trace' = Append(trace,
                 Event("getNumVolume", n, InputFeatFile(runDir, curRun), cwd))
    /\ pc' = "numvol_wait"
    /\ Log(3, fileHandlers)
    /\ UNCHANGED <<env, calls, err, files, dirs, cwd, inputs, inputFolders,
                   tmpl, block_design, num_volume, curDir, fileHandlers,
                   printed, featOutputs, snap>>

\* --------------------------------------------------------- per run, P7/P8
\* session_GLM 103-118: identifier, input_feat_file, then getNumVolume.sh
\* is started
BeginRunGLM ==
    /\ IsGLM /\ pc = "loop" /\ i < Len(inputFolders)
    /\ LET n      == i + 1
           runDir == inputFolders[n]
           curRun == curRunOf(runDir)
       IN  /\ i' = n
           /\ input_feat_file' = InputFeatFile(runDir, curRun)
           /\ trace' = Append(trace,
                 Event("getNumVolume", n, InputFeatFile(runDir, curRun), cwd))
    /\ pc' = "numvol_wait"
    \* "Starting run", "input_feat_file = ", "About to run:"
    /\ Log(3, fileHandlers)
    /\ UNCHANGED <<env, calls, err, files, dirs, cwd, inputs, inputFolders,
                   tmpl, block_design, num_volume, curDir, fileHandlers,
                   printed, featOutputs, snap>>

\* a materialization that stamps the document with the position of the run
\* in the batch: the same template and params give another document later
ExitNumVolumeGLM_stamped ==
    /\ IsGLM /\ pc = "numvol_wait"
    /\ \E o \in Outcomes(NumVolumeOutputs) :
          LET cresult == run_command(o.status, o.out, TRUE)
              p       == ParseInt(cresult.stdout)
              runDir  == inputFolders[i]
              curRun  == curRunOf(runDir)
              params  == Params(driver, runDir, curRun, p.val)
              blockGLMfsf  == fill_in_template(tmpl, params)
              blockGLMPath == ConfigPathName(driver, runDir, curRun)
              ex      == ExitEvent("getNumVolume", i, cwd, o.status)
              outcome == IF cresult.raised THEN "RuntimeError"
                         ELSE IF ~p.ok THEN "ValueError"
                         ELSE IF blockGLMfsf.err # "none" THEN blockGLMfsf.err
                         \* open(blockGLMPath, "w") needs the run directory
                         ELSE IF runDir \notin dirs THEN "FileNotFoundError"
                         ELSE "ok"
              \* logger.error in run_command; "numVolumes = " and one
              \* record per EV path; "About to run:" for feat
              records == IF cresult.raised THEN 1
                         ELSE IF ~p.ok THEN 0
                         ELSE 1 + Cardinality(DOMAIN EVFiles(driver))
                                + (IF outcome = "ok" THEN 1 ELSE 0)
          IN  /\ Log(records, fileHandlers)
              /\ printed' = IF cresult.raised THEN printed
                            ELSE Append(printed,
                                   [run |-> i, cmd |-> "getNumVolume",
                                    out |-> o.out])
              /\ num_volume' = IF ~cresult.raised /\ p.ok THEN p.val
                               ELSE num_volume
              /\ IF outcome = "ok"
                 THEN /\ files' = WriteFile(files, blockGLMPath,
                                    blockGLMfsf.out \o << <<"# run ", IntStr(i)>> >>)
                      /\ curDir' = cwd
                      /\ cwd' = runDir
                      /\ trace' = trace \o
                            << ex,
                               Event("write_config", i, blockGLMPath, cwd),
                               Event("feat", i, blockGLMPath, runDir) >>
                      /\ pc' = "feat_wait"
                      /\ UNCHANGED err
                 ELSE /\ Raise(outcome, cresult.returncode)
                      /\ trace' = Append(trace, ex)
                      /\ UNCHANGED <<files, curDir, cwd>>
    /\ UNCHANGED <<env, calls, dirs, i, inputs, inputFolders, tmpl,
                   block_design, input_feat_file, fileHandlers, featOutputs,
                   snap>>

\* a params dict kept across the loop: numVolumes is set by the first run only
ExitNumVolumeGLM_stale ==
    /\ IsGLM /\ pc = "numvol_wait"
    /\ \E o \in Outcomes(NumVolumeOutputs) :
          LET cresult == run_command(o.status, o.out, TRUE)
              p       == ParseInt(cresult.stdout)
              runDir  == inputFolders[i]
              curRun  == curRunOf(runDir)
              params  == Params(driver, runDir, curRun,
                                 IF i = 1 THEN p.val ELSE num_volume)
              blockGLMfsf  == fill_in_template(tmpl, params)
              blockGLMPath == ConfigPathName(driver, runDir, curRun)
              ex      == ExitEvent("getNumVolume", i, cwd, o.status)
              outcome == IF cresult.raised THEN "RuntimeError"
                         ELSE IF ~p.ok THEN "ValueError"
                         ELSE IF blockGLMfsf.err # "none" THEN blockGLMfsf.err
                         \* open(blockGLMPath, "w") needs the run directory
                         ELSE IF runDir \notin dirs THEN "FileNotFoundError"
                         ELSE "ok"
              \* logger.error in run_command; "numVolumes = " and one
              \* record per EV path; "About to run:" for feat
              records == IF cresult.raised THEN 1
                         ELSE IF ~p.ok THEN 0
                         ELSE 1 + Cardinality(DOMAIN EVFiles(driver))
                                + (IF outcome = "ok" THEN 1 ELSE 0)
          IN  /\ Log(records, fileHandlers)
              /\ printed' = IF cresult.raised THEN printed
                            ELSE Append(printed,
                                   [run |-> i, cmd |-> "getNumVolume",
                                    out |-> o.out])
              /\ num_volume' = IF ~cresult.raised /\ p.ok THEN p.val
                               ELSE num_volume
              /\ IF outcome = "ok"
                 THEN /\ files' = WriteFile(files, blockGLMPath, blockGLMfsf.out)
                      /\ curDir' = cwd
                      /\ cwd' = runDir
                      /\ trace' = trace \o
                            << ex,
                               Event("write_config", i, blockGLMPath, cwd),
                               Event("feat", i, blockGLMPath, runDir) >>
                      /\ pc' = "feat_wait"
                      /\ UNCHANGED err
                 ELSE /\ Raise(outcome, cresult.returncode)
                      /\ trace' = Append(trace, ex)
                      /\ UNCHANGED <<files, curDir, cwd>>
    /\ UNCHANGED <<env, calls, dirs, i, inputs, inputFolders, tmpl,
                   block_design, input_feat_file, fileHandlers, featOutputs,
                   snap>>

\* session_GLM 115-197: getNumVolume.sh has exited; the params dict is
\* built, the template filled in and written to blockGLMPath, then chdir
\* into the run directory and feat is started
ExitNumVolumeGLM ==
    /\ IsGLM /\ pc = "numvol_wait"
    /\ \E o \in Outcomes(NumVolumeOutputs) :
          LET cresult == run_command(o.status, o.out, TRUE)
              p       == ParseInt(cresult.stdout)
              runDir  == inputFolders[i]
              curRun  == curRunOf(runDir)
              params  == Params(driver, runDir, curRun, p.val)
              blockGLMfsf  == fill_in_template(tmpl, params)
              blockGLMPath == ConfigPathName(driver, runDir, curRun)
              ex      == ExitEvent("getNumVolume", i, cwd, o.status)
              outcome == IF cresult.raised THEN "RuntimeError"
                         ELSE IF ~p.ok THEN "ValueError"
                         ELSE IF blockGLMfsf.err # "none" THEN blockGLMfsf.err
                         \* open(blockGLMPath, "w") needs the run directory
                         ELSE IF runDir \notin dirs THEN "FileNotFoundError"
                         ELSE "ok"
              \* logger.error in run_command; "numVolumes = " and one
              \* record per EV path; "About to run:" for feat
              records == IF cresult.raised THEN 1
                         ELSE IF ~p.ok THEN 0
                         ELSE 1 + Cardinality(DOMAIN EVFiles(driver))
                                + (IF outcome = "ok" THEN 1 ELSE 0)
          IN  /\ Log(records, fileHandlers)
              /\ printed' = IF cresult.raised THEN printed
                            ELSE Append(printed,
                                   [run |-> i, cmd |-> "getNumVolume",
                                    out |-> o.out])
              /\ num_volume' = IF ~cresult.raised /\ p.ok THEN p.val
                               ELSE num_volume
              /\ IF outcome = "ok"
                 THEN /\ files' = WriteFile(files, blockGLMPath, blockGLMfsf.out)
                      /\ curDir' = cwd
                      /\ cwd' = runDir
                      /\ trace' = trace \o
                            << ex,
                               Event("write_config", i, blockGLMPath, cwd),
                               Event("feat", i, blockGLMPath, runDir) >>
                      /\ pc' = "feat_wait"
                      /\ UNCHANGED err
                 ELSE /\ Raise(outcome, cresult.returncode)
                      /\ trace' = Append(trace, ex)
                      /\ UNCHANGED <<files, curDir, cwd>>
    /\ UNCHANGED <<env, calls, dirs, i, inputs, inputFolders, tmpl,
                   block_design, input_feat_file, fileHandlers, featOutputs,
                   snap>>

\* the config is read back once feat has exited
ExitFeat_readback ==
    /\ pc = "feat_wait"
    /\ \E s \in Statuses :
          LET results == run_command(s, <<>>, IsGLM)
              ex      == ExitEvent("feat", i, cwd, s)
              made    == [run |-> i, dir |-> cwd, path |-> ConfigPathAt(i),
                          config |-> files[ConfigPathAt(i)]]
          IN  /\ trace' = trace \o << ex, Event("read", i, ConfigPathAt(i), cwd) >>
              \* logger.error in the run_command of P7/P8
              /\ Log(IF IsGLM /\ results.raised THEN 1 ELSE 0, fileHandlers)
              /\ IF results.raised
                 THEN /\ Raise("RuntimeError", results.returncode)
                      /\ UNCHANGED <<cwd, featOutputs, snap>>
                 ELSE /\ cwd' = IF driver = FEAT THEN workingDir ELSE curDir
                      /\ featOutputs' = featOutputs \cup {made}
                      /\ snap' = Append(snap,
                            [config |-> files[ConfigPathAt(i)],
                             outputs |-> {made}])
                      /\ pc' = "loop"
                      /\ UNCHANGED err
    /\ UNCHANGED <<env, mem, calls, files, dirs, i, printed>>

\* feat is started once more when its first attempt fails
ExitFeat_retry ==
    /\ pc = "feat_wait"
    /\ \E s \in Statuses :
          LET results == run_command(s, <<>>, IsGLM)
              ex      == ExitEvent("feat", i, cwd, s)
              retry   == /\ results.raised
                         /\ Cardinality({n \in 1..Len(trace) :
                               trace[n].kind = "feat" /\ trace[n].run = i}) < 2
              made    == [run |-> i, dir |-> cwd, path |-> ConfigPathAt(i),
                          config |-> files[ConfigPathAt(i)]]
          IN  /\ trace' = IF retry
                           THEN trace \o << ex, Event("feat", i, ConfigPathAt(i), cwd) >>
                           ELSE Append(trace, ex)
              \* logger.error in the run_command of P7/P8
              /\ Log(IF IsGLM /\ results.raised THEN 1 ELSE 0, fileHandlers)
              /\ IF results.raised
                 THEN /\ IF retry THEN UNCHANGED <<pc, err>>
                         ELSE Raise("RuntimeError", results.returncode)
                      /\ UNCHANGED <<cwd, featOutputs, snap>>
                 ELSE /\ cwd' = IF driver = FEAT THEN workingDir ELSE curDir
                      /\ featOutputs' = featOutputs \cup {made}
                      /\ snap' = Append(snap,
                            [config |-> files[ConfigPathAt(i)],
                             outputs |-> {made}])
                      /\ pc' = "loop"
                      /\ UNCHANGED err
    /\ UNCHANGED <<env, mem, calls, files, dirs, i, printed>>

\* the directory is not changed back after feat
ExitFeat_norestore ==
    /\ pc = "feat_wait"
    /\ \E s \in Statuses :
          LET results == run_command(s, <<>>, IsGLM)
              ex      == ExitEvent("feat", i, cwd, s)
              made    == [run |-> i, dir |-> cwd, path |-> ConfigPathAt(i),
                          config |-> files[ConfigPathAt(i)]]
          IN  /\ trace' = Append(trace, ex)
              \* logger.error in the run_command of P7/P8
              /\ Log(IF IsGLM /\ results.raised THEN 1 ELSE 0, fileHandlers)
              /\ IF results.raised
                 THEN /\ Raise("RuntimeError", results.returncode)
                      /\ UNCHANGED <<cwd, featOutputs, snap>>
                 ELSE /\ cwd' = cwd
                      /\ featOutputs' = featOutputs \cup {made}
                      /\ snap' = Append(snap,
                            [config |-> files[ConfigPathAt(i)],
                             outputs |-> {made}])
                      /\ pc' = "loop"
                      /\ UNCHANGED err
    /\ UNCHANGED <<env, mem, calls, files, dirs, i, printed>>

\* --------------------------------------------------------------- feat
\* P6 113-114, P7/P8 197-199: feat has exited; a non-zero status raises
\* out of the loop, otherwise the directory is changed back
ExitFeat ==
    /\ pc = "feat_wait"
    /\ \E s \in Statuses :
          LET results == run_command(s, <<>>, IsGLM)
              ex      == ExitEvent("feat", i, cwd, s)
              made    == [run |-> i, dir |-> cwd, path |-> ConfigPathAt(i),
                          config |-> files[ConfigPathAt(i)]]
          IN  /\ trace' = Append(trace, ex)
              \* logger.error in the run_command of P7/P8
              /\ Log(IF IsGLM /\ results.raised THEN 1 ELSE 0, fileHandlers)
              /\ IF results.raised
                 THEN /\ Raise("RuntimeError", results.returncode)
                      /\ UNCHANGED <<cwd, featOutputs, snap>>
                 ELSE /\ cwd' = IF driver = FEAT THEN workingDir ELSE curDir
                      /\ featOutputs' = featOutputs \cup {made}
                      /\ snap' = Append(snap,
                            [config |-> files[ConfigPathAt(i)],
                             outputs |-> {made}])
                      /\ pc' = "loop"
                      /\ UNCHANGED err
    /\ UNCHANGED <<env, mem, calls, files, dirs, i, printed>>

\* the manifest is exhausted
Finish ==
    /\ pc = "loop" /\ i = NRuns
    /\ pc' = "done"
    /\ UNCHANGED <<env, mem, ghost, logst, files, dirs, cwd, err, i>>

Next ==
    \/ RewriteTemplate
    \/ OpenManifest
    \/ session_GLM_CLI
    \/ SessionBegin
    \/ BeginRunFEAT
    \/ ExitNumVolumeFEAT
    \/ ExitTRDuration
    \/ ExitSlicetimings
    \/ BeginRunGLM
    \/ ExitNumVolumeGLM
    \/ ExitFeat
    \/ Finish

Spec == Init /\ [][Next]_vars

\* the script runs on whenever it can: every command started is taken to exit
LiveSpec == Spec /\ WF_vars(Next)

\* ------------------------------------------- several batches, one process
\* session_GLM_CLI is a function of the module: a caller that survives a
\* batch (it returned, or its exception was caught) can run another one.
\* The logger, the process's directory and the disk are as the last batch
\* left them; everything local to the call starts afresh.
CallAgain ==
    /\ IsGLM /\ pc \in {"done", "error"} /\ calls < MaxCalls
    /\ pc' = "start"
    /\ err' = NoErr
    /\ i' = 0
    /\ cwd0' = cwd
    /\ inputFolders' = <<>>
    /\ tmpl' = <<>>
    /\ input_feat_file' = <<>>
    /\ num_volume' = 0
    /\ curDir' = <<>>
    /\ trace' = <<>>
    /\ printed' = <<>>
    /\ snap' = <<>>
    /\ emitted' = 0
    /\ appended' = 0
    /\ UNCHANGED <<driver, template0, batch, files, dirs, cwd, inputs,
                   block_design, fileHandlers, featOutputs, calls>>

InitCalls == Init /\ IsGLM

NextCalls ==
    \/ session_GLM_CLI
    \/ SessionBegin
    \/ BeginRunGLM
    \/ ExitNumVolumeGLM
    \/ ExitFeat
    \/ Finish
    \/ CallAgain

SpecCalls == InitCalls /\ [][NextCalls]_vars

\* ------------------------------------- the script run again, P6
\* batchFEAT_main.py is a script: the operator starts it again in the same
\* directory after a batch has ended, completed or not.  The disk is as the
\* last batch left it; the new process starts in workingDir with nothing
\* in memory.
RunAgain ==
    /\ driver = FEAT /\ pc \in {"done", "error"} /\ batch < MaxBatches
    /\ batch' = batch + 1
    /\ pc' = "start"
    /\ err' = NoErr
    /\ i' = 0
    /\ cwd' = workingDir
    /\ cwd0' = workingDir
    /\ inputs' = <<>>
    /\ block_design' = <<>>
    /\ num_volume' = 0
    /\ trace' = <<>>
    /\ printed' = <<>>
    /\ snap' = <<>>
    /\ UNCHANGED <<driver, template0, logst, files, dirs, inputFolders, tmpl,
                   input_feat_file, curDir, fileHandlers, featOutputs>>

InitRerun ==
    /\ Init /\ driver = FEAT
    /\ toProcess \in DOMAIN files => Len(files[toProcess]) <= MaxRerunRuns

NextRerun ==
    \/ RewriteTemplate
    \/ OpenManifest
    \/ BeginRunFEAT
    \/ ExitNumVolumeFEAT
    \/ ExitTRDuration
    \/ ExitSlicetimings
    \/ ExitFeat
    \/ Finish
    \/ RunAgain

SpecRerun == InitRerun /\ [][NextRerun]_vars

\* ================================================================ claims
Last(s) == s[Len(s)]

\* the last thing that happened is that command cmd exited
JustExited(cmd) ==
    trace # <<>> /\ Last(trace).kind = "exit" /\ Last(trace).path = <<cmd>>

\* what helper cmd printed for the run at position k (exit status 0)
PrintedBy(k, cmd) == {r.out : r \in {printed[n] : n \in
                        {m \in 1..Len(printed) :
                            printed[m].run = k /\ printed[m].cmd = cmd}}}

ConfigPaths == {ConfigPathAt(k) : k \in 1..NRuns}

\* C1: after the feat invocation of a run has ended, with status 0 or not
\* (the error state included), the current working directory is the one the
\* process had before the invocation.
C1_CwdRestoredAfterFeat ==
    JustExited("feat") => cwd = cwd0

Materialized(k) ==
    IF driver = FEAT THEN block_design
    ELSE fill_in_template(tmpl,
             Params(driver, RunDirAt(k), RunIdAt(k), num_volume)).out

\* C2: whenever feat is running for a run, that run's config file is on
\* disk and holds the fully materialized document, and its write precedes
\* the start of feat in the order of events.
C2_ConfigWrittenBeforeFeat ==
    /\ pc = "feat_wait" =>
          /\ ConfigPathAt(i) \in DOMAIN files
          /\ files[ConfigPathAt(i)] = Materialized(i)
          /\ files[ConfigPathAt(i)] # <<>>
    /\ \A k \in 1..Len(trace) :
          trace[k].kind = "feat" =>
             \E j \in 1..(k - 1) :
                /\ trace[j].kind = "write_config"
                /\ trace[j].run = trace[k].run
                /\ trace[j].path = trace[k].path

C2_Witness ==
    /\ pc = "feat_wait" /\ i = 2
    /\ files[ConfigPathAt(2)] = Materialized(2)

ParamKeys(d) == DOMAIN Params(d, <<>>, <<>>, 0)

LacksKey == IsGLM /\ tmpl # <<>> /\ ~(FieldNames(tmpl) \subseteq ParamKeys(driver))

\* the helper of the current run has exited 0 with a parseable count, so
\* fill_in_template has been called
FillAttempted ==
    /\ JustExited("getNumVolume") /\ Last(trace).status = 0
    /\ \A o \in PrintedBy(i, "getNumVolume") : ParseInt(o).ok

\* C3: in the GLM drivers, when the template names a placeholder the
\* parameter set has no key for, materialization fails with KeyError, no
\* config file is written and feat is never started.
C3_MissingKeyWritesNothing ==
    LacksKey =>
       /\ DOMAIN files \cap ConfigPaths = {}
       /\ \A k \in 1..Len(trace) : trace[k].kind \notin {"write_config", "feat"}
       /\ pc \notin {"feat_wait", "done"} \/ NRuns = 0
       /\ FillAttempted => pc = "error" /\ err.kind = "KeyError"

C3_Witness ==
    /\ LacksKey /\ FillAttempted
    /\ err.kind = "KeyError" /\ DOMAIN files \cap ConfigPaths = {}

HelperFailed ==
    /\ pc = "error"
    /\ JustExited("getNumVolume") \/ JustExited("getTRDuration")
    /\ err.kind \in {"RuntimeError", "ValueError"}

\* C4: when a helper of the run at position i exits non-zero or prints
\* something that is not a number, no file exists at that run's config path
\* (no earlier run of the batch having the same path).
C4_HelperFailureLeavesNoConfig ==
    (HelperFailed /\ \A j \in 1..(i - 1) : ConfigPathAt(j) # ConfigPathAt(i))
       => ConfigPathAt(i) \notin DOMAIN files

CommandFailed(k) ==
    \E n \in 1..Len(trace) :
       trace[n].kind = "exit" /\ trace[n].run = k /\ trace[n].status # 0

OutputUnparseable(k) ==
    \/ \E o \in PrintedBy(k, "getNumVolume") : ~ParseInt(o).ok
    \/ \E o \in PrintedBy(k, "getTRDuration") : ~ParseFloat(o).ok

MaterializationFailed(k) ==
    /\ LacksKey
    /\ \E o \in PrintedBy(k, "getNumVolume") : ParseInt(o).ok

Failed(k) == CommandFailed(k) \/ OutputUnparseable(k) \/ MaterializationFailed(k)

\* C5: a failure while processing the run at position k (a command exiting
\* non-zero, helper output that is not a number, a materialization error)
\* ends the batch there: the batch is in the error state at run k, the
\* failing step is the last thing that happened, and nothing was executed,
\* created or written for a later run.
C5_FailureAbortsBatch ==
    \A k \in 1..NRuns :
       Failed(k) =>
          /\ pc = "error" /\ i = k
          /\ Last(trace).kind = "exit" /\ Last(trace).run = k
          /\ \A n \in 1..Len(trace) : trace[n].run <= k
          /\ \A j \in (k + 1)..NRuns :
                (\A h \in 1..k : RunIdAt(h) # RunIdAt(j)) =>
                   /\ ConfigPathAt(j) \notin DOMAIN files
                   /\ driver = FEAT => RunDirAt(j) \notin dirs

C5_Witness ==
    /\ NRuns = 2 /\ Failed(1) /\ pc = "error"
    /\ RunIdAt(1) # RunIdAt(2)
    /\ ConfigPathAt(2) \notin DOMAIN files

\* C6: run_command reports the exit status as it is: right after a command
\* has exited, the batch is in the error state with a RuntimeError carrying
\* that status exactly when the status is not 0; after status 0 the call
\* returned and the captured stdout is what the command printed.
C6_ExitStatusFaithful ==
    /\ (trace # <<>> /\ Last(trace).kind = "exit") =>
          /\ Last(trace).status # 0 =>
                /\ pc = "error"
                /\ err = [kind |-> "RuntimeError",
                          returncode |-> Last(trace).status]
          /\ Last(trace).status = 0 =>
                /\ err.kind # "RuntimeError"
                /\ Last(trace).path \in {<<"getNumVolume">>, <<"getTRDuration">>}
                      => PrintedBy(i, Last(trace).path[1]) # {}
                /\ (pc # "error" /\ Last(trace).path = <<"getNumVolume">>) =>
                      \A o \in PrintedBy(i, "getNumVolume") :
                         num_volume = ParseInt(o).val
    /\ err.kind = "RuntimeError" =>
          /\ trace # <<>> /\ Last(trace).kind = "exit"
          /\ Last(trace).status = err.returncode /\ err.returncode # 0

C6_Witness ==
    /\ JustExited("feat") /\ Last(trace).status = -9
    /\ pc = "error" /\ err = [kind |-> "RuntimeError", returncode |-> -9]

NonBlank(line) == Strip(line) # <<>>

ManifestRead ==
    pc \in {"session", "loop", "numvol_wait", "tr_wait", "st_wait",
            "feat_wait", "done"}

\* C7: once the manifest has been read, the runs of the batch are the
\* non-blank lines of the manifest, one each and in file order.
C7_OneRunPerNonBlankLine ==
    ManifestRead =>
       LET lines == SelectSeq(files[toProcess], NonBlank)
       IN  /\ NRuns = Len(lines)
           /\ \A k \in 1..Min(NRuns, Len(lines)) :
                 RunDirAt(k) = RunDirOfLine(lines[k])

ManifestLine(k) == files[toProcess][k]

ExpectedConfigPath(line) ==
    workingDir \o <<"/", "r", "u", "n">> \o Prefix2(line)
    \o <<"/", "block">> \o Prefix2(line) \o <<ConfigSuffix(driver)>>

\* the values that follow key, one per line of doc that has the key
Field(doc, key) ==
    {SubSeq(doc[n], SetMin(IndicesOf(doc[n], key)) + 1, Len(doc[n])) :
        n \in {m \in 1..Len(doc) : IndicesOf(doc[m], key) # {}}}

\* v is the text of an integer equal to the one printed as o
IsIntOf(v, o) ==
    /\ AllDigits(v)
    /\ ParseInt(o).ok /\ ParseInt(v).val = ParseInt(o).val

\* v is the text of the number printed as o, with six decimals
IsSixDecimalsOf(v, o) ==
    /\ DotPos(v) > 0 /\ Len(v) - DotPos(v) = 6
    /\ ParseFloat(o).ok /\ ParseFloat(v).ok
    /\ ParseFloat(v).val = ParseFloat(o).val

NptsFromHelper(cfg, k) ==
    /\ PrintedBy(k, "getNumVolume") # {} /\ Field(cfg, KeyNpts) # {}
    /\ \A v \in Field(cfg, KeyNpts) :
          \A o \in PrintedBy(k, "getNumVolume") : IsIntOf(v, o)

TrFromHelper(cfg, k) ==
    /\ PrintedBy(k, "getTRDuration") # {} /\ Field(cfg, KeyTr) # {}
    /\ \A v \in Field(cfg, KeyTr) :
          \A o \in PrintedBy(k, "getTRDuration") : IsSixDecimalsOf(v, o)

\* C8 (as stated): after a successful batch, every manifest line that
\* starts with a two-digit ID has a config file run<ID>/block<ID>_<suffix>
\* whose npts field is the integer the volume-count helper printed for that
\* run and whose tr field is the value the TR helper printed for that run,
\* with six decimals.
C8_AsStated ==
    pc = "done" =>
       \A k \in 1..NRuns :
          HasId(ManifestLine(k)) =>
             LET path == ExpectedConfigPath(ManifestLine(k))
             IN  /\ path \in DOMAIN files
                 /\ NptsFromHelper(files[path], k)
                 /\ TrFromHelper(files[path], k)

LastWithId(k) ==
    \A j \in (k + 1)..NRuns : Prefix2(ManifestLine(j)) # Prefix2(ManifestLine(k))

\* C8 (amended): after a successful batch, every manifest line that starts
\* with a two-digit ID no later line repeats has a config file
\* run<ID>/block<ID>_<suffix>.  In batchFEAT_main its npts field is the
\* helper's integer and its tr field the helper's value with six decimals,
\* each where the template has that line.  In the GLM drivers the npts
\* field written as {numVolumes} is the helper's integer, the TR helper is
\* never run and the tr field is the template's.
C8_EndToEnd ==
    pc = "done" =>
       \A k \in 1..NRuns :
          (HasId(ManifestLine(k)) /\ LastWithId(k)) =>
             LET path == ExpectedConfigPath(ManifestLine(k))
                 tpl  == files[template(driver)]
             IN  /\ path \in DOMAIN files
                 /\ (driver = FEAT /\ Field(tpl, KeyNpts) # {})
                       => NptsFromHelper(files[path], k)
                 /\ (driver = FEAT /\ Field(tpl, KeyTr) # {})
                       => TrFromHelper(files[path], k)
                 /\ (IsGLM /\ Field(tpl, KeyNpts) = {<<"{", "numVolumes", "}">>})
                       => NptsFromHelper(files[path], k)
                 /\ IsGLM =>
                       /\ PrintedBy(k, "getTRDuration") = {}
                       /\ \A n \in 1..Len(trace) : trace[n].kind # "getTRDuration"
                       /\ Field(files[path], KeyTr) = Field(tpl, KeyTr)

C8_Witness ==
    /\ pc = "done" /\ driver = FEAT /\ NRuns = 2
    /\ HasId(ManifestLine(1)) /\ LastWithId(1) /\ HasId(ManifestLine(2))
    /\ TrFromHelper(files[ExpectedConfigPath(ManifestLine(1))], 1)
    /\ NptsFromHelper(files[ExpectedConfigPath(ManifestLine(2))], 2)

ManifestMissing == toProcess \notin DOMAIN files

\* C9: with the manifest missing, the batch never gets past opening it: no
\* run is begun, no directory created, no config file written, no command
\* started, and the only way on is the error state.
C9_MissingManifestStopsBatch ==
    ManifestMissing =>
       /\ pc \in {"start", "open", "error"}
       /\ i = 0 /\ trace = <<>> /\ featOutputs = {}
       /\ dirs = {workingDir, otherDir}
       /\ DOMAIN files \subseteq {template(driver)}

C9_Witness ==
    /\ ManifestMissing
    /\ IsGLM \/ template(driver) \in DOMAIN files
    /\ pc = "error" /\ err.kind = "FileNotFoundError"
    /\ trace = <<>>

EventsOf(kind, r) ==
    {n \in 1..Len(trace) : trace[n].kind = kind /\ trace[n].run = r}

\* the positions at which command cmd of run r exited with status 0
ExitsOk(cmd, r) ==
    {n \in 1..Len(trace) :
        /\ trace[n].kind = "exit" /\ trace[n].run = r
        /\ trace[n].path = <<cmd>> /\ trace[n].status = 0}

Helpers == IF driver = FEAT THEN {"getNumVolume", "getTRDuration"}
           ELSE {"getNumVolume"}

\* C11: the steps of a batch are sequential and never interleave across
\* runs: within a run every helper has exited before the config is written
\* and the config is written before feat is started, and nothing of the run
\* at position r+1 happens before the feat of the run at position r has
\* exited.
C11_StrictlySequential ==
    /\ \A a, b \in 1..Len(trace) : a < b => trace[a].run <= trace[b].run
    /\ \A w \in 1..Len(trace) :
          trace[w].kind = "write_config" =>
             \A h \in Helpers :
                /\ \E s \in EventsOf(h, trace[w].run) : s < w
                /\ \E x \in ExitsOk(h, trace[w].run) : x < w
    /\ \A f \in 1..Len(trace) :
          trace[f].kind = "feat" =>
             \E w \in EventsOf("write_config", trace[f].run) : w < f
    /\ \A b \in 1..Len(trace) :
          trace[b].run > 1 =>
             \E x \in ExitsOk("feat", trace[b].run - 1) : x < b

C11_Witness ==
    /\ pc = "done" /\ NRuns = 2
    /\ ExitsOk("feat", 1) # {} /\ ExitsOk("feat", 2) # {}
    /\ \A n \in EventsOf("getNumVolume", 2) :
          \A x \in ExitsOk("feat", 1) : x < n

\* the runs at positions j and k were given the same ParameterSet: the same
\* run directory and the same volume count
SameParams(j, k) ==
    /\ inputFolders[j] = inputFolders[k]
    /\ PrintedBy(j, "getNumVolume") # {} /\ PrintedBy(k, "getNumVolume") # {}
    /\ \A a \in PrintedBy(j, "getNumVolume") :
          \A b \in PrintedBy(k, "getNumVolume") :
             ParseInt(a).val = ParseInt(b).val

Rule(key, quoted, val) == [key |-> key, quoted |-> quoted, val |-> val]

HasKey(line, key) == IndicesOf(line, key) # {}

\* where the value of a line ends: before its last quote, or at its end
ValueEnd(line, quoted) ==
    IF quoted THEN SetMax(IndicesOf(line, Quote)) - 1 ELSE Len(line)

\* new is old with the value after r.key replaced by r.val: the text up to
\* and including the key and the text after the value are the old ones, and
\* the value read back from new is r.val
RewrittenLine(old, new, r) ==
    LET k == SetMin(IndicesOf(old, r.key))
    IN  /\ HasKey(new, r.key) /\ SetMin(IndicesOf(new, r.key)) = k
        /\ r.quoted => IndicesOf(new, Quote) # {}
        /\ SubSeq(new, 1, k) = SubSeq(old, 1, k)
        /\ SubSeq(new, ValueEnd(new, r.quoted) + 1, Len(new))
              = SubSeq(old, ValueEnd(old, r.quoted) + 1, Len(old))
        /\ SubSeq(new, k + 1, ValueEnd(new, r.quoted)) = r.val

\* new is old rewritten by the rules: a line with the key of a rule is
\* rewritten by it, every other line is the old one
RewriteOf(old, new, rules) ==
    /\ Len(new) = Len(old)
    /\ \A n \in 1..Len(old) :
          LET hit == {r \in rules : HasKey(old[n], r.key)}
          IN  IF hit = {} THEN new[n] = old[n]
              ELSE \A r \in hit : RewrittenLine(old[n], new[n], r)

HighresRules ==
    { Rule(KeyHighres, TRUE, structuarlDir \o <<"/", STRUCTURALFILENAME>>) }

\* the values batchFEAT_main substitutes for run k, from the manifest line,
\* the volume count and the TR the helper printed
RunRules(k) ==
    LET id  == Prefix2(inputs[k])
        dir == workingDir \o <<"/", "r", "u", "n">> \o id
    IN  { Rule(KeyFeatFiles, TRUE, workingDir \o <<"/">> \o id),
          Rule(KeyOutputdir, TRUE,
               dir \o <<"/">> \o id \o <<"-preprocess.feat">>),
          Rule(KeyStFile, TRUE, dir \o <<"/", "slicetimes.txt">>),
          Rule(KeyNpts, FALSE, IntStr(num_volume)) }
        \cup { Rule(KeyTr, FALSE, Format6f(ParseFloat(o).val)) :
                  o \in PrintedBy(k, "getTRDuration") }

RulesHit(doc, rules) ==
    {r \in rules : \E n \in 1..Len(doc) : HasKey(doc[n], r.key)}

\* C13: in batchFEAT_main, the template on disk is the original template
\* with only the value of highres_files(1) replaced, and the config written
\* for a run whose manifest line starts with a two-digit ID is that template
\* with only the values of feat_files(1), fmri(outputdir), fmri(st_file),
\* fmri(npts) and fmri(tr) replaced, where the template has these lines:
\* all other text is unchanged and the value read back after each key is
\* the substituted one.
C13_RewriteRoundTrip ==
    (driver = FEAT /\ template(FEAT) \in DOMAIN files /\ pc # "start") =>
       /\ RewriteOf(template0, files[template(FEAT)], HighresRules)
       /\ (pc = "st_wait" /\ HasId(inputs[i])) =>
             RewriteOf(files[template(FEAT)], files[ConfigPathAt(i)],
                       RunRules(i))

C13_Witness ==
    /\ driver = FEAT /\ pc = "st_wait" /\ i = 2 /\ HasId(inputs[i])
    /\ RulesHit(template0, HighresRules) = HighresRules
    /\ Cardinality(RulesHit(files[template(FEAT)], RunRules(i))) = 5
    /\ files[ConfigPathAt(i)] # files[template(FEAT)]
    /\ RewriteOf(files[template(FEAT)], files[ConfigPathAt(i)], RunRules(i))

\* the rules of run k whose key no line of doc has
RulesMissed(doc, k) == RunRules(k) \ RulesHit(doc, RunRules(k))

TRDurationUsable(k) ==
    /\ ExitsOk("getTRDuration", k) # {}
    /\ \A o \in PrintedBy(k, "getTRDuration") : ParseFloat(o).ok

\* C14: in batchFEAT_main a rule whose key the template lacks changes
\* nothing and stops nothing: the config of a run is written exactly when
\* its TR helper succeeded with a number, and feat is started exactly when
\* makeSlicetimings succeeded, whatever keys the template has; the written
\* config has the template's lines, none of them with a missing key, and
\* the rules whose keys are present are applied.
C14_MissingPatternIsNoOp ==
    (driver = FEAT /\ pc \notin {"start", "open"}) =>
       /\ \A k \in 1..i :
             /\ EventsOf("write_config", k) # {} <=> TRDurationUsable(k)
             /\ EventsOf("feat", k) # {}
                   <=> ExitsOk("makeSlicetimings", k) # {}
       /\ pc \in {"st_wait", "feat_wait"} =>
             LET tpl == files[template(FEAT)]
                 cfg == files[ConfigPathAt(i)]
             IN  /\ Len(cfg) = Len(tpl)
                 /\ \A r \in RulesMissed(tpl, i) :
                       \A n \in 1..Len(cfg) : ~HasKey(cfg[n], r.key)
                 /\ HasId(inputs[i]) => RewriteOf(tpl, cfg, RunRules(i))

C14_Witness ==
    /\ driver = FEAT /\ pc = "feat_wait" /\ i = 1 /\ HasId(inputs[1])
    /\ template0 = FeatTemplatePartial
    /\ {r.key : r \in RulesMissed(files[template(FEAT)], 1)}
          = {KeyOutputdir, KeyStFile, KeyNpts, KeyTr}
    /\ EventsOf("feat", 1) # {}
    /\ files[ConfigPathAt(1)] # files[template(FEAT)]

\* positions of the trace where path is handed to feat
HandedToFeat(path) ==
    {n \in 1..Len(trace) : trace[n].kind = "feat" /\ trace[n].path = path}

\* between positions n and m the file at path is made anew from the template
MadeAnewBetween(path, n, m) ==
    \E c \in (n + 1)..(m - 1) :
       trace[c].kind = "copy" /\ trace[c].path = path

\* C15: feat is started at most once per manifest entry, and exactly once,
\* with that entry's config path, in a batch that completes; a config that
\* has been handed to feat is not read again by the driver (a later entry
\* with the same ID first replaces the file by a copy of the template).
C15_ConfigConsumedOnce ==
    /\ \A k \in 1..NRuns : Cardinality(EventsOf("feat", k)) <= 1
    /\ pc = "done" =>
          \A k \in 1..NRuns :
             \E n \in 1..Len(trace) :
                /\ EventsOf("feat", k) = {n}
                /\ trace[n].path = ConfigPathAt(k)
                /\ EventsOf("write_config", k) # {}
    /\ \A m \in 1..Len(trace) :
          trace[m].kind = "read" =>
             \A n \in HandedToFeat(trace[m].path) :
                n < m => MadeAnewBetween(trace[m].path, n, m)

C15_Witness ==
    /\ pc = "done" /\ NRuns = 2
    /\ Cardinality(EventsOf("feat", 1)) = 1
    /\ Cardinality(EventsOf("feat", 2)) = 1
    /\ ConfigPathAt(1) = ConfigPathAt(2)
    /\ EventsOf("read", 2) # {}

\* the document the GLM drivers make of the template for a manifest line
\* and the text the volume-count helper printed
ConfigOfGLM(tpl, line, numvol) ==
    LET runDir == RunDirOfLine(line)
        curRun == curRunOf(runDir)
    IN  fill_in_template(tpl,
           Params(driver, runDir, curRun, ParseInt(numvol).val)).out

\* the document batchFEAT_main makes of the template for a manifest line
\* and the texts the two helpers printed
ConfigOfFEAT(tpl, line, numvol, tr) ==
    LET id   == cur_nifii(line)
        bdir == RunDirOfLine(line)
        d0   == ReSubQuoted(KeyHighres,
                    path_join(structuarlDir, <<STRUCTURALFILENAME>>), tpl)
        d1   == ReSubQuoted(KeyFeatFiles, input_file_root(id), d0)
        d2   == ReSubQuoted(KeyOutputdir,
                    path_join(bdir, id \o <<"-preprocess.feat">>), d1)
        d3   == ReSubQuoted(KeyStFile,
                    path_join(bdir, <<"slicetimes.txt">>), d2)
        d4   == ReSubToEol(KeyNpts, IntStr(ParseInt(numvol).val), d3)
    IN  ReSubToEol(KeyTr, Format6f(ParseFloat(tr).val), d4)

\* C16: the config a completed run leaves is a function of the template,
\* the working directory, the run's manifest line and what the helpers
\* printed for that run, and of nothing else: not of the position of the
\* run, of the other manifest lines or of what the helpers printed for
\* other runs.
C16_ConfigDependsOnOwnRunOnly ==
    \A k \in 1..Len(snap) :
       /\ PrintedBy(k, "getNumVolume") # {}
       /\ \A nv \in PrintedBy(k, "getNumVolume") :
             IF IsGLM
             THEN snap[k].config = ConfigOfGLM(template0, ManifestLine(k), nv)
             ELSE /\ PrintedBy(k, "getTRDuration") # {}
                  /\ \A tr \in PrintedBy(k, "getTRDuration") :
                        snap[k].config
                           = ConfigOfFEAT(template0, ManifestLine(k), nv, tr)

C16_Witness ==
    /\ Len(snap) = 2 /\ IsGLM
    /\ ManifestLine(1) # ManifestLine(2)
    /\ PrintedBy(1, "getNumVolume") # PrintedBy(2, "getNumVolume")
    /\ snap[1].config # snap[2].config
    /\ \A nv \in PrintedBy(2, "getNumVolume") :
          snap[2].config = ConfigOfGLM(template0, ManifestLine(2), nv)

Commands == {"getNumVolume", "getTRDuration", "makeSlicetimings", "feat"}
Waiting == pc \in {"numvol_wait", "tr_wait", "st_wait", "feat_wait"}
Terminal == pc \in {"done", "error"}

\* the command subprocess.run is blocked on
Pending ==
    CASE pc = "numvol_wait" -> "getNumVolume"
      [] pc = "tr_wait"     -> "getTRDuration"
      [] pc = "st_wait"     -> "makeSlicetimings"
      [] OTHER              -> "feat"

NoRetry ==
    \A k \in 1..NRuns : \A c \in Commands : Cardinality(EventsOf(c, k)) <= 1

\* while a command is pending nothing of a later run has begun
NothingAhead ==
    Waiting => \A n \in 1..Len(trace) : trace[n].run <= i

\* the only step out of a wait is the exit of the pending command
OnlyTheExit ==
    Waiting =>
       /\ Len(trace') > Len(trace)
       /\ SubSeq(trace', 1, Len(trace)) = trace
       /\ trace'[Len(trace) + 1].kind = "exit"
       /\ trace'[Len(trace) + 1].run = i
       /\ trace'[Len(trace) + 1].path = <<Pending>>

\* C17: when every started command exits, the batch ends, completed or
\* aborted on the first error; no command is started twice for a run; and
\* while a command has not exited the batch takes no other step than that
\* exit, so that nothing of a later run begins before it.
C17_TerminatesWithoutRetry ==
    /\ <>Terminal
    /\ [][OnlyTheExit /\ NoRetry' /\ NothingAhead']_vars

C17_Witness ==
    /\ pc = "error" /\ err.kind = "RuntimeError" /\ i = 2 /\ Len(snap) = 1
    /\ EventsOf("feat", 2) # {} /\ NoRetry
    /\ trace[Len(trace)].kind = "exit" /\ trace[Len(trace)].status # 0

\* C18: in the GLM drivers, for every manifest line, the identifier
\* session_GLM recovers from the run directory (its last two characters) is
\* the identifier session_GLM_CLI took from the line (its first two
\* characters), lines shorter than two characters and blank lines included.
C18_IdRoundTrip ==
    (IsGLM /\ pc \notin {"start", "error"}) =>
       \A k \in 1..NRuns :
          curRunOf(inputFolders[k]) = Prefix2(ManifestLine(k))

HelperKinds == {"getNumVolume", "getTRDuration", "makeSlicetimings"}

\* C19: every helper command, of whatever run of the batch, is started with
\* the process in the directory the batch started in: the change into the
\* directory of the run before has been undone.
C19_HelpersStartInBatchDir ==
    \A n \in 1..Len(trace) :
       trace[n].kind \in HelperKinds => trace[n].cwd = cwd0

C19_Witness ==
    /\ i = 2 /\ Len(snap) >= 1
    /\ \E n \in EventsOf("feat", 1) : trace[n].cwd # cwd0
    /\ \E n \in EventsOf("getNumVolume", 2) : trace[n].cwd = cwd0

\* C20: after n calls of session_GLM in one process, completed or aborted,
\* the logger holds n file handlers, and each record emitted in the batch
\* under way has been appended to the log file once per handler.
C20_HandlersAccumulate ==
    /\ fileHandlers = calls
    /\ appended = calls * emitted

C20_Witness ==
    /\ calls = 2 /\ fileHandlers = 2 /\ pc = "done" /\ NRuns >= 1
    /\ emitted > 0 /\ appended = 2 * emitted

\* the step of batchFEAT_main that rewrites the template on disk
RewriteStep == driver = FEAT /\ pc = "start" /\ pc' = "open"

\* nothing of the batch has happened: manifest not read, no run begun
NothingYet == inputs = <<>> /\ i = 0 /\ trace = <<>>

\* every highres_files(1) line of doc names the structural file
HighresSet(doc) ==
    \A n \in 1..Len(doc) :
       HasKey(doc[n], KeyHighres) =>
          \A r \in HighresRules : RewrittenLine(doc[n], doc[n], r)

\* C21: batchFEAT_main rewrites the template on disk before the manifest is
\* opened and before any run: the rewrite touches no other file and no line
\* of the template but the highres_files(1) line, whose value becomes the
\* structural path; once the manifest is read or a run begun the template
\* on disk is the rewritten one; and when the script is run again on the
\* same directory the rewrite leaves the template as the batch before left
\* it.
C21_TemplateRewriteIdempotent ==
    [][ /\ RewriteStep =>
              /\ NothingYet
              /\ DOMAIN files' = DOMAIN files
              /\ \A p \in DOMAIN files \ {template(FEAT)} :
                    files'[p] = files[p]
              /\ RewriteOf(files[template(FEAT)], files'[template(FEAT)],
                           HighresRules)
              /\ batch >= 2 => files' = files
        /\ (driver' = FEAT /\ ~NothingYet') =>
              /\ template(FEAT) \in DOMAIN files'
              /\ HighresSet(files'[template(FEAT)])
              /\ RewriteOf(template0', files'[template(FEAT)], HighresRules)
      ]_vars

C21_Witness ==
    /\ driver = FEAT /\ batch = 2 /\ pc = "open"
    /\ featOutputs # {}
    /\ files[template(FEAT)] # template0
    /\ HighresSet(files[template(FEAT)])
    /\ ~HighresSet(template0)
====
